---- MODULE Spec2Model ----
(***************************************************************************)
(* Model of AF_Cluster/plot_mesoricin_distribution.py: the pairwise        *)
(* TM-align scorer (run_tmalign), the all-pairs scheduling over a          *)
(* ProcessPoolExecutor, the assembly of the similarity matrix tm_data, and *)
(* the embedding / rendering stage that follows it.                        *)
(*                                                                         *)
(* Text is a sequence of tokens: the literal "TM-score=" is one token,     *)
(* every other token is one character.  Python floats are modelled as      *)
(* exact decimals [num, exp] standing for num / 10^exp, kept normalised.   *)
(***************************************************************************)
EXTENDS Integers, Sequences, FiniteSets, TLC

(* ---------------------------- bounds ----------------------------------- *)

\* longest tool output (in tokens) the scorer is applied to
MaxOutLen == 6

\* largest number of structure files found by the globs
MaxN == 3

\* size of the process pool (os.cpu_count() on the machine of the run)
MaxWorkers == 2

(* ------------------------- text and numbers ---------------------------- *)

MARKER == "TM-score="

Digits == {"1", "5"}

Spaces == {" "}

Chars == {MARKER, "x", "."} \cup Digits \cup Spaces

DigitValue(c) == IF c = "1" THEN 1 ELSE 5

RECURSIVE DecNorm(_, _)
DecNorm(num, exp) ==
    IF exp > 0 /\ num % 10 = 0 THEN DecNorm(num \div 10, exp - 1)
    ELSE [num |-> num, exp |-> exp]

RECURSIVE Pow10(_)
Pow10(k) == IF k = 0 THEN 1 ELSE 10 * Pow10(k - 1)

Zero == [num |-> 0, exp |-> 0]

One == [num |-> 1, exp |-> 0]

DecAdd(a, b) ==
    LET e == IF a.exp >= b.exp THEN a.exp ELSE b.exp
    IN  DecNorm(a.num * Pow10(e - a.exp) + b.num * Pow10(e - b.exp), e)

DecSub(a, b) ==
    LET e == IF a.exp >= b.exp THEN a.exp ELSE b.exp
    IN  DecNorm(a.num * Pow10(e - a.exp) - b.num * Pow10(e - b.exp), e)

DecHalf(a) == DecNorm(5 * a.num, a.exp + 1)

DecLeq(a, b) == a.num * Pow10(b.exp) <= b.num * Pow10(a.exp)

(* float(text) for a text made of digits and dots                          *)
RECURSIVE DigitsValue(_)
DigitsValue(ds) ==
    IF ds = <<>> THEN 0
    ELSE 10 * DigitsValue(SubSeq(ds, 1, Len(ds) - 1)) + DigitValue(ds[Len(ds)])

float(text) ==
    LET dots == {k \in 1..Len(text) : text[k] = "."}
        ds   == SelectSeq(text, LAMBDA c : c \in Digits)
    IN  IF Cardinality(dots) > 1 \/ ds = <<>>
        THEN [ok |-> FALSE, val |-> Zero]
        ELSE LET fracLen == IF dots = {} THEN 0
                            ELSE Len(text) - (CHOOSE k \in dots : TRUE)
             IN  [ok |-> TRUE, val |-> DecNorm(DigitsValue(ds), fracLen)]

(* re.findall(r"TM-score=\s*([\d.]+)", text)                               *)
RECURSIVE SkipWhile(_, _, _)
SkipWhile(text, p, cls) ==
    IF p <= Len(text) /\ text[p] \in cls THEN SkipWhile(text, p + 1, cls) ELSE p

RECURSIVE Scan(_, _)
Scan(text, p) ==
    IF p > Len(text) THEN <<>>
    ELSE IF text[p] # MARKER THEN Scan(text, p + 1)
    ELSE LET q == SkipWhile(text, p + 1, Spaces)
             r == SkipWhile(text, q, Digits \cup {"."})
         IN  IF r > q THEN <<SubSeq(text, q, r - 1)>> \o Scan(text, r)
             ELSE Scan(text, p + 1)

findall(text) == Scan(text, 1)

(* ------------------------------ scorer --------------------------------- *)

\* what subprocess.run(..., check=True) does for one invocation
Completed(out) == [kind |-> "completed", stdout |-> out]

CalledProcessError == [kind |-> "CalledProcessError", stdout |-> <<>>]

\* any other exception of subprocess.run (PermissionError, FileNotFoundError
\* of an executable removed after start-up, a decoding error of text=True)
OSError == [kind |-> "OSError", stdout |-> <<>>]

Return(i, j, score) ==
    [kind |-> "return", i |-> i, j |-> j, score |-> score, exc |-> "none"]

Raise(i, j, exc) ==
    [kind |-> "raise", i |-> i, j |-> j, score |-> Zero, exc |-> exc]

\* variant: the first match alone is used whenever there is one
DeriveFirstOnly(i, j, matches) ==
    IF Len(matches) >= 1
    THEN LET a == float(matches[1])
         IN  IF a.ok THEN Return(i, j, a.val) ELSE Raise(i, j, "ValueError")
    ELSE Return(i, j, Zero)

\* lines 37-44: the score derived from the captured standard output
Derive(i, j, matches) ==
    IF Len(matches) >= 2
    THEN LET a == float(matches[1])
             b == float(matches[2])
         IN  IF a.ok /\ b.ok THEN Return(i, j, DecHalf(DecAdd(a.val, b.val)))
             ELSE Raise(i, j, "ValueError")
    ELSE IF Len(matches) = 1
    THEN LET a == float(matches[1])
         IN  IF a.ok THEN Return(i, j, a.val) ELSE Raise(i, j, "ValueError")
    ELSE Return(i, j, Zero)

\* variant: no short cut for i = j, the tool scores the self-pair
run_tmalign_NoShortcut(pair, proc) ==
    IF proc.kind = "CalledProcessError" THEN Return(pair[1], pair[2], Zero)
    ELSE IF proc.kind # "completed" THEN Raise(pair[1], pair[2], proc.kind)
    ELSE Derive(pair[1], pair[2], findall(proc.stdout))

\* run_tmalign(pair), proc being what the subprocess does when it is invoked
run_tmalign(pair, proc) ==
    LET i == pair[1]
        j == pair[2]
    IN  IF i = j THEN Return(i, j, One)
        ELSE IF proc.kind = "CalledProcessError" THEN Return(i, j, Zero)
        ELSE IF proc.kind # "completed" THEN Raise(i, j, proc.kind)
        ELSE Derive(i, j, findall(proc.stdout))

\* variant: a failed invocation is tried once more
InvocationsRetry(pair, proc) ==
    IF pair[1] = pair[2] THEN 0
    ELSE IF proc.kind = "completed" THEN 1 ELSE 2

\* lines 30-36: the subprocess.run calls one run_tmalign(pair) makes: none
\* for i = j, otherwise one, whatever its outcome
Invocations(pair, proc) == IF pair[1] = pair[2] THEN 0 ELSE 1

(* ------------------------------- state --------------------------------- *)

VARIABLES
    pc,            \* position of the main process
    exe_present,   \* TMalign_PATH.is_file() on this machine
    start_method,  \* multiprocessing start method of the platform
    checks,        \* executions of the module-level check, by kind of process
    n,             \* len(all_pdbs)
    pairs,         \* the list of pair tasks
    tm_data,       \* the similarity matrix
    written,       \* cells of tm_data assigned by the result loop
    futures,       \* one future per submitted pair, in submission order
    next,          \* position of the result iterator of executor.map
    booted,        \* worker processes that have started
    reordered,     \* history: a call finished while an earlier one still ran
    tsne_input,    \* the distance matrix handed to TSNE
    artifacts,     \* files written by the run
    invocations,   \* subprocess.run calls made so far, per submitted pair
    arg,           \* argument of a stand-alone scorer call
    ret            \* its outcome

vars == <<pc, exe_present, start_method, checks, n, pairs, tm_data, written,
          futures, next, booted, reordered, tsne_input, artifacts, invocations, arg, ret>>

pipeVars == <<pc, exe_present, start_method, checks, n, pairs, tm_data, written,
              futures, next, booted, reordered, tsne_input, artifacts,
              invocations>>

NoResult == [kind |-> "none", i |-> 0, j |-> 0, score |-> Zero, exc |-> "none"]

NoArg == [pair |-> <<0, 0>>, proc |-> CalledProcessError]

Cells(m) == (0..(m - 1)) \X (0..(m - 1))

(* ------------------------- stand-alone scorer -------------------------- *)

Outputs == UNION {[1..k -> Chars] : k \in 0..MaxOutLen}

Procs == {Completed(out) : out \in Outputs} \cup {CalledProcessError, OSError}

SelfProcs == {Completed(<<>>), Completed(<<MARKER, "5">>), CalledProcessError, OSError}

ScorerArgs ==
    {[pair |-> <<0, 1>>, proc |-> p] : p \in Procs}
        \cup {[pair |-> <<k, k>>, proc |-> p] : k \in 0..1, p \in SelfProcs}

PipeIdle ==
    /\ pc = "startup"
    /\ exe_present = TRUE
    /\ start_method = "fork"
    /\ checks = [main |-> 0, worker |-> 0]
    /\ n = 0
    /\ pairs = <<>>
    /\ tm_data = <<>>
    /\ written = {}
    /\ futures = <<>>
    /\ next = 1
    /\ booted = 0
    /\ reordered = FALSE
    /\ tsne_input = <<>>
    /\ artifacts = {}
    /\ invocations = <<>>

InitScorer ==
    /\ PipeIdle
    /\ arg \in ScorerArgs
    /\ ret = NoResult

Call ==
    /\ ret.kind = "none"
    /\ ret' = run_tmalign(arg.pair, arg.proc)
    /\ UNCHANGED <<arg, pipeVars>>

NextScorer == Call

SpecScorer == InitScorer /\ [][NextScorer]_vars

(* ------------------------------ pipeline ------------------------------- *)

\* variant: range(i + 1, n) in place of range(i, n)
RECURSIVE PairsFromStrict(_, _, _)
PairsFromStrict(i, j, m) ==
    IF i >= m THEN <<>>
    ELSE IF j = i THEN PairsFromStrict(i, i + 1, m)
    ELSE IF j >= m THEN PairsFromStrict(i + 1, i + 1, m)
    ELSE <<<<i, j>>>> \o PairsFromStrict(i, j + 1, m)

\* line 71: [(i, j, ...) for i in range(n) for j in range(i, n)]
RECURSIVE PairsFrom(_, _, _)
PairsFrom(i, j, m) ==
    IF i >= m THEN <<>>
    ELSE IF j >= m THEN PairsFrom(i + 1, i + 1, m)
    ELSE <<<<i, j>>>> \o PairsFrom(i, j + 1, m)

\* variant: the mirrored assignment of line 79 is missing
WriteResultUpperOnly(M, i, j, score) == [M EXCEPT ![<<i, j>>] = score]

\* variant: line 77 written as tm_data[i] = score, which fills the whole row
WriteResultRow(M, i, j, score) ==
    [c \in DOMAIN M |-> IF c[1] = i \/ c = <<j, i>> THEN score ELSE M[c]]

\* lines 77-79: the two assignments made for one result
WriteResult(M, i, j, score) ==
    LET M1 == [M EXCEPT ![<<i, j>>] = score]
    IN  IF i # j THEN [M1 EXCEPT ![<<j, i>>] = score] ELSE M1

\* what the tool does in the runs of the pipeline
PipeOutputs ==
    { <<MARKER, ".", "5", MARKER, " ", "1">> }

PipeProcs == {Completed(out) : out \in PipeOutputs} \cup {CalledProcessError, OSError}

Future(state, proc, result) == [state |-> state, proc |-> proc, result |-> result]

Running == {k \in 1..Len(futures) : futures[k].state = "running"}

Init ==
    /\ pc = "startup"
    /\ exe_present \in BOOLEAN
    /\ start_method \in {"fork", "spawn"}
    /\ checks = [main |-> 0, worker |-> 0]
    /\ n = 0
    /\ pairs = <<>>
    /\ tm_data = <<>>
    /\ written = {}
    /\ futures = <<>>
    /\ next = 1
    /\ booted = 0
    /\ reordered = FALSE
    /\ tsne_input = <<>>
    /\ artifacts = {}
    /\ invocations = <<>>
    /\ arg = NoArg
    /\ ret = NoResult

\* variant: the check only warns and the script goes on
CheckExecutableNoRaise ==
    /\ pc = "startup"
    /\ checks' = [checks EXCEPT !.main = @ + 1]
    /\ pc' = "main"
    /\ UNCHANGED <<exe_present, start_method, n, pairs, tm_data, written,
                   futures, next, booted, reordered, tsne_input, artifacts, invocations, arg, ret>>

\* lines 25-26, executed when the script is loaded as __main__
CheckExecutable ==
    /\ pc = "startup"
    /\ checks' = [checks EXCEPT !.main = @ + 1]
    /\ pc' = IF exe_present THEN "main" ELSE "fatal"
    /\ UNCHANGED <<exe_present, start_method, n, pairs, tm_data, written,
                   futures, next, booted, reordered, tsne_input, artifacts, invocations, arg, ret>>

\* lines 47-71: the globs, the zero matrix and the list of pairs
GeneratePairs ==
    /\ pc = "main"
    /\ \E m \in 0..MaxN :
        /\ n' = m
        /\ tm_data' = [c \in Cells(m) |-> Zero]
        /\ pairs' = PairsFrom(0, 0, m)
    /\ pc' = "submit"
    /\ UNCHANGED <<exe_present, start_method, checks, written, futures, next,
                   booted, reordered, tsne_input, artifacts, invocations, arg, ret>>

\* lines 74-75: executor.map submits every pair, in order, before it returns
Submit ==
    /\ pc = "submit"
    /\ futures' = [k \in 1..Len(pairs) |-> Future("pending", "none", NoResult)]
    /\ next' = 1
    /\ invocations' = [k \in 1..Len(pairs) |-> 0]
    /\ pc' = "consume"
    /\ UNCHANGED <<exe_present, start_method, checks, n, pairs, tm_data, written,
                   booted, reordered, tsne_input, artifacts, arg, ret>>

\* a worker process of the pool starts; a spawned (not forked) process loads
\* the script again as __mp_main__ and so executes lines 25-26 once more
WorkerBoot ==
    /\ pc = "consume"
    /\ Len(futures) > 0
    /\ booted < MaxWorkers
    /\ booted' = booted + 1
    /\ checks' = IF start_method = "spawn"
                 THEN [checks EXCEPT !.worker = @ + 1] ELSE checks
    /\ UNCHANGED <<pc, exe_present, start_method, n, pairs, tm_data, written,
                   futures, next, reordered, tsne_input, artifacts, invocations, arg, ret>>

\* an idle worker takes the oldest pending work item
StartTask(k) ==
    /\ pc \in {"consume", "unwinding"}
    /\ futures[k].state = "pending"
    /\ \A h \in 1..(k - 1) : futures[h].state # "pending"
    /\ Cardinality(Running) < booted
    /\ futures' = [futures EXCEPT ![k].state = "running"]
    /\ UNCHANGED <<pc, exe_present, start_method, checks, n, pairs, tm_data,
                   written, next, booted, reordered, tsne_input, artifacts, invocations, arg, ret>>

\* the worker finishes run_tmalign(pairs[k]); proc is what the tool does, or
\* would do, for this pair: it is invoked only for i # j (line 30)
CompleteTask(k) ==
    /\ pc \in {"consume", "unwinding"}
    /\ futures[k].state = "running"
    /\ \E proc \in PipeProcs :
        /\ futures' = [futures EXCEPT ![k] =
              Future("finished",
                     IF pairs[k][1] = pairs[k][2] THEN "none" ELSE proc.kind,
                     run_tmalign(pairs[k], proc))]
        /\ invocations' = [invocations EXCEPT ![k] = @ + Invocations(pairs[k], proc)]
    /\ reordered' = (reordered \/ \E h \in 1..(k - 1) : futures[h].state = "running")
    /\ UNCHANGED <<pc, exe_present, start_method, checks, n, pairs, tm_data,
                   written, next, booted, tsne_input, artifacts, arg, ret>>

\* variant: the loop runs over as_completed(futures), which yields any
\* finished call
ConsumeAsCompleted ==
    /\ pc = "consume"
    /\ \E k \in 1..Len(futures) :
        /\ futures[k].state = "finished"
        /\ pairs[k] \notin written
        /\ LET r == futures[k].result
           IN  IF r.kind = "return"
               THEN /\ tm_data' = WriteResult(tm_data, r.i, r.j, r.score)
                    /\ written' = written \cup {<<r.i, r.j>>, <<r.j, r.i>>}
                    /\ next' = next + 1
                    /\ UNCHANGED <<pc, futures>>
               ELSE /\ pc' = "unwinding"
                    /\ futures' = [h \in 1..Len(futures) |->
                                     IF futures[h].state = "pending"
                                     THEN [futures[h] EXCEPT !.state = "cancelled"]
                                     ELSE futures[h]]
                    /\ UNCHANGED <<tm_data, written, next>>
    /\ UNCHANGED <<exe_present, start_method, checks, n, pairs, booted,
                   reordered, tsne_input, artifacts, invocations, arg, ret>>

\* lines 76-79: one iteration of the result loop; the iterator yields results
\* in submission order and re-raises the exception of a failed call, upon
\* which the pending futures are cancelled
Consume ==
    /\ pc = "consume"
    /\ next <= Len(futures)
    /\ futures[next].state = "finished"
    /\ LET r == futures[next].result
       IN  IF r.kind = "return"
           THEN /\ tm_data' = WriteResult(tm_data, r.i, r.j, r.score)
                /\ written' = written \cup {<<r.i, r.j>>, <<r.j, r.i>>}
                /\ next' = next + 1
                /\ UNCHANGED <<pc, futures>>
           ELSE /\ pc' = "unwinding"
                /\ futures' = [k \in 1..Len(futures) |->
                                 IF futures[k].state = "pending"
                                 THEN [futures[k] EXCEPT !.state = "cancelled"]
                                 ELSE futures[k]]
                /\ UNCHANGED <<tm_data, written, next>>
    /\ UNCHANGED <<exe_present, start_method, checks, n, pairs, booted,
                   reordered, tsne_input, artifacts, invocations, arg, ret>>

\* variant: the results are not drained before the script goes on
PoolExitEarly ==
    /\ pc = "consume"
    /\ pc' = "embed"
    /\ UNCHANGED <<exe_present, start_method, checks, n, pairs, tm_data, written,
                   futures, next, booted, reordered, tsne_input, artifacts, invocations, arg, ret>>

\* line 74, leaving the with block: shutdown(wait=True)
PoolExit ==
    /\ Running = {}
    /\ \/ /\ pc = "consume"
          /\ next > Len(futures)
          /\ pc' = "embed"
       \/ /\ pc = "unwinding"
          /\ pc' = "aborted"
    /\ UNCHANGED <<exe_present, start_method, checks, n, pairs, tm_data, written,
                   futures, next, booted, reordered, tsne_input, artifacts, invocations, arg, ret>>

\* lines 82-83: the distance matrix and the embedding; TSNE is external and
\* either returns or raises
Embed ==
    /\ pc = "embed"
    /\ tsne_input' = [c \in Cells(n) |-> DecSub(One, tm_data[c])]
    /\ \/ pc' = "render"
       \/ pc' = "embed_failed"
    /\ UNCHANGED <<exe_present, start_method, checks, n, pairs, tm_data, written,
                   futures, next, booted, reordered, artifacts, invocations, arg, ret>>

\* lines 86-130: the scatter plot and plt.savefig
Render ==
    /\ pc = "render"
    /\ artifacts' = artifacts \cup {"png"}
    /\ pc' = "done"
    /\ UNCHANGED <<exe_present, start_method, checks, n, pairs, tm_data, written,
                   futures, next, booted, reordered, tsne_input, invocations, arg, ret>>

Next ==
    \/ CheckExecutable
    \/ GeneratePairs
    \/ Submit
    \/ WorkerBoot
    \/ \E k \in 1..Len(futures) : StartTask(k)
    \/ \E k \in 1..Len(futures) : CompleteTask(k)
    \/ Consume
    \/ PoolExit
    \/ Embed
    \/ Render

Spec == Init /\ [][Next]_vars

(* ------------------------------ properties ----------------------------- *)

\* the main process has left the with block normally
AfterPool == {"embed", "render", "embed_failed", "done"}

\* position in pairs of the task of the unordered pair {a, b}
TaskOf(a, b) ==
    CHOOSE k \in 1..Len(pairs) :
        pairs[k] = IF a <= b THEN <<a, b>> ELSE <<b, a>>

\* C1: the similarity matrix is symmetric after every consumed result, and
\* so once all results are consumed: M[i][j] = M[j][i] for all i, j < n.
C1_Symmetric ==
    \A c \in Cells(n) : tm_data[<<c[1], c[2]>>] = tm_data[<<c[2], c[1]>>]

C1_Witness ==
    /\ pc = "embed"
    /\ \E c \in Cells(n) : c[1] # c[2] /\ c \in written /\ tm_data[c] # Zero

\* C2: in the assembled matrix every diagonal cell is exactly 1.0, whatever
\* the tool would do for a self-comparison.
C2_DiagonalOne ==
    /\ \A i \in 0..(n - 1) : <<i, i>> \in written => tm_data[<<i, i>>] = One
    /\ pc \in AfterPool => \A i \in 0..(n - 1) : tm_data[<<i, i>>] = One

C2_Witness ==
    /\ pc = "embed"
    /\ n >= 2
    /\ \E k \in 1..Len(futures) : futures[k].proc = "CalledProcessError"

\* C3: n(n+1)/2 pair tasks are generated: every (i, j) with 0 <= i <= j < n
\* exactly once, none twice, none with i > j.
C3_PairsExact ==
    pc \notin {"startup", "main", "fatal"} =>
        /\ 2 * Len(pairs) = n * (n + 1)
        /\ \A k \in 1..Len(pairs) :
              /\ 0 <= pairs[k][1]
              /\ pairs[k][1] <= pairs[k][2]
              /\ pairs[k][2] < n
        /\ \A k, h \in 1..Len(pairs) : k # h => pairs[k] # pairs[h]
        /\ \A i, j \in 0..(n - 1) :
              i <= j => \E k \in 1..Len(pairs) : pairs[k] = <<i, j>>

C3_Witness == pc = "submit" /\ n >= 3 /\ Len(pairs) >= 6

C5_FailureRecovered ==
    \A k \in 1..Len(futures) :
        futures[k].proc \in {"CalledProcessError", "OSError"} =>
            /\ futures[k].result.kind = "return"
            /\ futures[k].result.score = Zero
            /\ pc \notin {"unwinding", "aborted"}

\* C6: the embedding stage starts only after all n(n+1)/2 results have been
\* consumed, and then every cell of the matrix has been written from a result.
C6_Barrier ==
    pc \in AfterPool =>
        /\ 2 * Len(futures) = n * (n + 1)
        /\ next = Len(futures) + 1
        /\ \A k \in 1..Len(futures) : futures[k].state = "finished"
        /\ written = Cells(n)

C6_Witness == pc = "render" /\ n >= 2 /\ tsne_input # <<>>

\* C7: the final matrix is determined by the outcomes of the pairs alone:
\* whatever the order in which the workers complete, cell (a, b) holds the
\* score returned for the pair {a, b}.
C7_OrderIndependent ==
    pc \in AfterPool =>
        \A c \in Cells(n) :
            tm_data[c] = futures[TaskOf(c[1], c[2])].result.score

C7_Witness ==
    /\ pc = "embed"
    /\ reordered
    /\ \E c \in Cells(n) : c[1] # c[2] /\ tm_data[c] # Zero
    /\ \E c \in Cells(n) : c[1] # c[2] /\ tm_data[c] = Zero

\* C8: every triple the scorer returns has its score within [0, 1], for
\* every textual output of the tool.
C8_ScoreInUnitInterval ==
    ret.kind = "return" => (DecLeq(Zero, ret.score) /\ DecLeq(ret.score, One))

\* C9 as stated: without the executable the run ends fatally before any pair
\* task exists, and the existence check is executed once per run, never per
\* pair and never again inside a worker process.
C9_CheckedOnce ==
    /\ ~exe_present => (pc \in {"startup", "fatal"} /\ pairs = <<>> /\ futures = <<>>)
    /\ pc = "fatal" => ~exe_present
    /\ checks.main + checks.worker <= 1

\* C9 as amended: without the executable the run ends fatally before any
\* pair task exists; the main process executes the check once, before any
\* work, and never per pair; a worker process executes it at most once, at
\* its own start, and only when the start method loads the script again.
C9_FailFast ==
    /\ ~exe_present => (pc \in {"startup", "fatal"} /\ pairs = <<>> /\ futures = <<>>)
    /\ pc = "fatal" => ~exe_present
    /\ checks.main = (IF pc = "startup" THEN 0 ELSE 1)
    /\ checks.worker = (IF start_method = "spawn" THEN booted ELSE 0)
    /\ booted <= MaxWorkers

C9_Witness ==
    /\ pc = "fatal"
    /\ ~exe_present
    /\ checks.main = 1

\* C10: a run that finishes the rendering stage has written both the image
\* and the CSV file.
C10_BothArtifacts ==
    pc = "done" => {"png", "csv"} \subseteq artifacts

\* cells of the matrix owned by the tasks at positions 1..m of pairs
CellsOfPrefix(m) ==
    UNION {{pairs[k], <<pairs[k][2], pairs[k][1]>>} : k \in 1..m}

\* C11 as stated: a result that is ready while an earlier-submitted call is
\* still running can be consumed and written into the matrix at once,
\* without waiting for the earlier call.
C11_AsCompleted ==
    \A k \in 1..Len(futures) :
        ( /\ pc = "consume"
          /\ futures[k].state = "finished"
          /\ futures[k].result.kind = "return"
          /\ pairs[k] \notin written
          /\ \E h \in 1..(k - 1) : futures[h].state = "running" )
        => ENABLED (Consume /\ pairs[k] \in written')

\* C11 as amended: results are consumed in submission order; the cells
\* written so far are those of the first next - 1 pairs, and a result that
\* is ready while an earlier-submitted call has not finished stays unwritten
\* and cannot be consumed until every earlier result has been.
C11_SubmissionOrder ==
    /\ written = CellsOfPrefix(next - 1)
    /\ \A k \in 1..Len(futures) :
          (futures[k].state = "finished"
              /\ \E h \in 1..(k - 1) : futures[h].state \in {"pending", "running"})
          => /\ pairs[k] \notin written
             /\ ~ ENABLED (Consume /\ pairs[k] \in written')

C11_Witness ==
    /\ pc = "consume"
    /\ reordered
    /\ written # {}
    /\ \E k \in 1..Len(futures) :
          /\ futures[k].state = "finished"
          /\ futures[k].result.kind = "return"
          /\ \E h \in 1..(k - 1) : futures[h].state = "running"

RECURSIVE SumTo(_, _)
SumTo(f, m) == IF m = 0 THEN 0 ELSE f[m] + SumTo(f, m - 1)

\* subprocess.run calls made so far in the run
TotalInvocations == SumTo(invocations, Len(invocations))

\* C12: the tool is invoked at most once per pair with i < j and never for a
\* self-pair, a failed invocation is not retried; the number of invocations
\* never exceeds n(n-1)/2 and equals it when the run completes.
C12_InvocationCount ==
    /\ \A k \in 1..Len(invocations) :
          /\ invocations[k] <= 1
          /\ pairs[k][1] = pairs[k][2] => invocations[k] = 0
          /\ (futures[k].state = "finished" /\ pairs[k][1] < pairs[k][2])
                => invocations[k] = 1
    /\ 2 * TotalInvocations <= n * (n - 1)
    /\ pc \in AfterPool => 2 * TotalInvocations = n * (n - 1)

C12_Witness ==
    /\ pc = "embed"
    /\ n >= 3
    /\ \E k \in 1..Len(futures) :
          futures[k].proc = "CalledProcessError" /\ invocations[k] = 1
    /\ \E k \in 1..Len(futures) :
          pairs[k][1] = pairs[k][2] /\ invocations[k] = 0

====
